---- MODULE Spec2Model ----
(***************************************************************************)
(* Pinniped schema-management core: the Table model (src/src/models/       *)
(* table.js), its validation, the update diff rendered into the up/down    *)
(* migration templates, and the create / drop / update apply paths run     *)
(* against a physical store and the table-metadata catalog.                *)
(***************************************************************************)
EXTENDS Integers, Sequences, FiniteSets, TLC

(***************************************************************************)
(* Values.  A falsy JavaScript value (undefined, null, "") is the empty    *)
(* string.                                                                 *)
(***************************************************************************)
Falsy == ""

API_RULE_VALUES == {"public", "user", "creator", "admin"}

DEFAULT_RULE == "public"

\* Type registry (Column.COLUMN_MAP / Column.isValidType are not under src/).
COLUMN_MAP == {"int", "float", "json"}

isValidType(type) == type \in COLUMN_MAP

\* new Column({id, name, type, options}): keeps id, name and type only.
Column(id, name, type) == [id |-> id, name |-> name, type |-> type]

NullColumn == Column(Falsy, Falsy, Falsy)

\* new Table({...}) before validate(): the fields the constructor assigns.
MkTable(id, name, columns, rules) ==
  [id |-> id, name |-> name, columns |-> columns,
   getAllRule |-> rules[1], getOneRule |-> rules[2], createRule |-> rules[3],
   updateRule |-> rules[4], deleteRule |-> rules[5]]

DefaultRules == <<DEFAULT_RULE, DEFAULT_RULE, DEFAULT_RULE, DEFAULT_RULE, DEFAULT_RULE>>

NullTable == MkTable(Falsy, Falsy, <<>>, <<Falsy, Falsy, Falsy, Falsy, Falsy>>)

Range(s) == {s[i] : i \in 1..Len(s)}

\* Table.API_RULES.forEach: the five rule attributes of a table.
RulesOf(t) == <<t.getAllRule, t.getOneRule, t.createRule, t.updateRule, t.deleteRule>>

getColumns(t) == t.columns

\* Mutant: the uniqueness check of column names is left out.
UniqueColNamesSkipped(t) == TRUE

\* colNames.length !== new Set(colNames).size
UniqueColNames(t) ==
  Len(t.columns) = Cardinality({t.columns[i].name : i \in 1..Len(t.columns)})

ReservedNames == {"id", "created_at", "updated_at"}

\* Table.validate(): TRUE iff no BadRequestError is thrown.
validate(t) ==
  /\ t.id # Falsy
  /\ t.name # Falsy
  /\ Len(t.columns) # 0
  /\ \A i \in 1..Len(t.columns) : t.columns[i].id # Falsy
  /\ \A i \in 1..Len(t.columns) : t.columns[i].name # Falsy
  /\ \A i \in 1..Len(t.columns) : t.columns[i].type # Falsy
  /\ \A i \in 1..Len(t.columns) : isValidType(t.columns[i].type)
  /\ ~ \E i \in 1..Len(t.columns) : t.columns[i].name \in ReservedNames
  /\ UniqueColNames(t)
  /\ \A r \in 1..5 : RulesOf(t)[r] \in API_RULE_VALUES

\* Mutant: the transition check accepts every newTable.
validateUpdateToAny(this, newTable) == TRUE

\* validateUpdateTo(newTable): TRUE iff no BadRequestError is thrown.
validateUpdateTo(this, newTable) == this.id = newTable.id

(***************************************************************************)
(* Store operations issued by the migration templates (the DAO calls).     *)
(***************************************************************************)
\* stringifyColumns(): the column collection as one serialized blob.
stringifyColumns(t) == [json |-> getColumns(t)]

\* JSON.stringify({...this, columns: this.stringifyColumns()}): the catalog row.
TableMetaRow(t) == [t EXCEPT !.columns = stringifyColumns(t)]

NullRow == TableMetaRow(NullTable)

Op(kind, table, from, to, col, def, row) ==
  [op |-> kind, table |-> table, from |-> from, to |-> to, col |-> col,
   def |-> def, row |-> row]

dropColumn(table, name) ==
  Op("dropColumn", table, name, Falsy, NullColumn, NullTable, NullRow)
addColumn(table, col) ==
  Op("addColumn", table, Falsy, col.name, col, NullTable, NullRow)
renameColumn(table, from, to) ==
  Op("renameColumn", table, from, to, NullColumn, NullTable, NullRow)
renameTable(from, to) ==
  Op("renameTable", from, from, to, NullColumn, NullTable, NullRow)
createTable(def) ==
  Op("createTable", def.name, Falsy, Falsy, NullColumn, def, NullRow)
dropTable(name) ==
  Op("dropTable", name, Falsy, Falsy, NullColumn, NullTable, NullRow)
addTableMetaData(row) ==
  Op("addTableMetaData", row.name, Falsy, Falsy, NullColumn, NullTable, row)
updateTableMetaData(row) ==
  Op("updateTableMetaData", row.name, Falsy, Falsy, NullColumn, NullTable, row)
deleteTableMetaData(id) ==
  Op("deleteTableMetaData", Falsy, id, Falsy, NullColumn, NullTable, NullRow)

\* new Table(row): typeof columns === "string" => JSON.parse(columns), then
\* each element through new Column.
TableOfRow(row) ==
  [row EXCEPT !.columns =
     [i \in 1..Len(row.columns.json) |->
        Column(row.columns.json[i].id, row.columns.json[i].name, row.columns.json[i].type)]]

\* oldColumns.find((c) => c.id === id): the first column with that id, or none.
RECURSIVE FindById(_, _)
FindById(cols, id) ==
  IF cols = <<>> THEN NullColumn
  ELSE IF Head(cols).id = id THEN Head(cols)
  ELSE FindById(Tail(cols), id)

HasId(cols, id) == \E i \in 1..Len(cols) : cols[i].id = id

\* "Delete Columns" loop of the templates.
RECURSIVE DropOps(_, _, _)
DropOps(oldTable, oldCols, newColumns) ==
  IF oldCols = <<>> THEN <<>>
  ELSE (IF HasId(newColumns, Head(oldCols).id) THEN <<>>
        ELSE <<dropColumn(oldTable.name, Head(oldCols).name)>>)
       \o DropOps(oldTable, Tail(oldCols), newColumns)

\* "Add OR Rename Columns" loop of the templates.
RECURSIVE AddRenameOps(_, _, _)
AddRenameOps(oldTable, oldColumns, newCols) ==
  IF newCols = <<>> THEN <<>>
  ELSE LET newColumn == Head(newCols)
           found == HasId(oldColumns, newColumn.id)
           match == FindById(oldColumns, newColumn.id)
       IN (IF ~found THEN <<addColumn(oldTable.name, newColumn)>> ELSE <<>>)
          \o (IF found /\ match.name # newColumn.name
              THEN <<renameColumn(oldTable.name, match.name, newColumn.name)>>
              ELSE <<>>)
          \o AddRenameOps(oldTable, oldColumns, Tail(newCols))

\* Mutant: the rename-table step is left out of the templates.
RenameTableOpsSkipped(oldTable, newTable) == <<>>

\* "Rename Table" step of the templates.
RenameTableOps(oldTable, newTable) ==
  IF oldTable.name # newTable.name
  THEN <<renameTable(oldTable.name, newTable.name)>>
  ELSE <<>>

\* Mutant: the rename-table step is placed before the column loops.
StructuralOpsRenameFirst(oldTable, newTable) ==
  RenameTableOps(oldTable, newTable)
  \o DropOps(oldTable, getColumns(oldTable), getColumns(newTable))
  \o AddRenameOps(oldTable, getColumns(oldTable), getColumns(newTable))

\* Mutant: the add/rename loop is placed before the delete loop.
StructuralOpsAddFirst(oldTable, newTable) ==
  AddRenameOps(oldTable, getColumns(oldTable), getColumns(newTable))
  \o DropOps(oldTable, getColumns(oldTable), getColumns(newTable))
  \o RenameTableOps(oldTable, newTable)

\* Structural part of a template body run with (oldTable, newTable).
StructuralOps(oldTable, newTable) ==
  DropOps(oldTable, getColumns(oldTable), getColumns(newTable))
  \o AddRenameOps(oldTable, getColumns(oldTable), getColumns(newTable))
  \o RenameTableOps(oldTable, newTable)

\* Mutant: the up procedure writes the old catalog row back.
UpdateUpKeepsRow(this, newTable) ==
  StructuralOps(this, newTable) \o <<updateTableMetaData(TableMetaRow(this))>>

\* updateTo: export async function up(knex) of the migration template.
UpdateUp(this, newTable) ==
  StructuralOps(this, newTable) \o <<updateTableMetaData(TableMetaRow(newTable))>>

\* updateTo: export async function down(knex): the same logic, old and new swapped.
UpdateDown(this, newTable) ==
  StructuralOps(newTable, this) \o <<updateTableMetaData(TableMetaRow(this))>>

\* create: up / down of the migration template.
CreateUp(this) == <<createTable(this), addTableMetaData(TableMetaRow(this))>>
CreateDown(this) == <<dropTable(this.name), deleteTableMetaData(this.id)>>

\* drop: up / down of the migration template.
DropUp(this) == <<dropTable(this.name), deleteTableMetaData(this.id)>>

\* Mutant: the down procedure of a drop re-creates the physical table only.
DropDownTableOnly(this) == <<createTable(this)>>

DropDown(this) == <<createTable(this), addTableMetaData(TableMetaRow(this))>>

(***************************************************************************)
(* The physical store and the catalog behind the DAO (dao.js is not under  *)
(* src/): a physical table is a name with a set of typed columns, the      *)
(* catalog is a set of rows keyed by table id.  A store operation either   *)
(* applies or fails with a store error and changes nothing.                *)
(***************************************************************************)
PhysColumn(col) == [name |-> col.name, type |-> col.type]

PhysTable(name, columns) == [name |-> name, columns |-> columns]

PhysNamed(ph, name) == {pt \in ph : pt.name = name}

\* dao.findTableByName(name): the catalog rows with that name.
findTableByName(cat, name) == {row \in cat : row.name = name}

Store(ph, cat) == [phys |-> ph, catalog |-> cat]

\* Whether the store accepts the operation in store st.
StoreAccepts(st, o) ==
  LET here == PhysNamed(st.phys, o.table)
      colNames(pt) == {c.name : c \in pt.columns}
  IN CASE o.op = "createTable" ->
            /\ here = {}
            /\ Cardinality({o.def.columns[i].name : i \in 1..Len(o.def.columns)})
                 = Len(o.def.columns)
       [] o.op = "dropTable" -> here # {}
       [] o.op = "addColumn" ->
            here # {} /\ \A pt \in here : o.col.name \notin colNames(pt)
       [] o.op = "dropColumn" ->
            here # {} /\ \A pt \in here : o.from \in colNames(pt)
       [] o.op = "renameColumn" ->
            /\ here # {}
            /\ \A pt \in here : o.from \in colNames(pt) /\ o.to \notin colNames(pt)
       [] o.op = "renameTable" -> here # {} /\ PhysNamed(st.phys, o.to) = {}
       [] o.op = "addTableMetaData" -> \A row \in st.catalog : row.id # o.row.id
       [] OTHER -> TRUE

\* The store after an accepted operation.
StoreApply(st, o) ==
  LET here == PhysNamed(st.phys, o.table)
      rest == st.phys \ here
      edit(f(_)) == Store(rest \cup {PhysTable(pt.name, f(pt)) : pt \in here}, st.catalog)
      added(pt) == pt.columns \cup {PhysColumn(o.col)}
      dropped(pt) == {c \in pt.columns : c.name # o.from}
      renamed(pt) == {IF c.name = o.from THEN [c EXCEPT !.name = o.to] ELSE c :
                        c \in pt.columns}
  IN CASE o.op = "createTable" ->
            Store(st.phys \cup {PhysTable(o.def.name,
                     {PhysColumn(o.def.columns[i]) : i \in 1..Len(o.def.columns)})},
                  st.catalog)
       [] o.op = "dropTable" -> Store(rest, st.catalog)
       [] o.op = "addColumn" -> edit(added)
       [] o.op = "dropColumn" -> edit(dropped)
       [] o.op = "renameColumn" -> edit(renamed)
       [] o.op = "renameTable" ->
            Store(rest \cup {PhysTable(o.to, pt.columns) : pt \in here}, st.catalog)
       [] o.op = "addTableMetaData" -> Store(st.phys, st.catalog \cup {o.row})
       [] o.op = "updateTableMetaData" ->
            Store(st.phys,
                  {IF row.id = o.row.id THEN o.row ELSE row : row \in st.catalog})
       [] o.op = "deleteTableMetaData" ->
            Store(st.phys, {row \in st.catalog : row.id # o.from})
       [] OTHER -> st

(***************************************************************************)
(* Bounded inputs.                                                         *)
(***************************************************************************)
MaxCols == 2

MaxCalls == 3

TableIds == {"T1", "T2"}
TableNames == {"seals", "walrus"}
OtherNames == {"walrus", "otters"}
ColIds == {"C1", "C2"}
ColNames == {"age", "years"}

Columns == {Column(i, n, "int") : i \in ColIds, n \in ColNames}

SeqsUpTo(S, n) == UNION {[1..k -> S] : k \in 0..n}

\* The constructor arguments of S that new Table accepts.
Accepted(S) == UNION {IF validate(t) THEN {t} ELSE {} : t \in S}

\* Rules passed to the constructor other than the defaults.
AdminRules == [DefaultRules EXCEPT ![1] = "admin"]

\* Tables a caller can obtain from the constructor (validate() passed): the
\* first table with every column list of one type, with a column of
\* another type and with another rule, the second table with one fixed column.
ConstructedTables ==
  Accepted({MkTable("T1", n, cols, DefaultRules) :
              n \in TableNames, cols \in SeqsUpTo(Columns, MaxCols)})
  \cup {MkTable("T1", n, <<Column("C1", "age", "float")>>, DefaultRules) :
          n \in TableNames}
  \cup {MkTable("T1", "seals", <<Column("C1", "age", "int")>>, AdminRules),
        MkTable("T1", "seals",
                <<Column("C1", "age", "float"), Column("C1", "years", "int")>>,
                DefaultRules)}
  \cup {MkTable("T2", n, <<Column("C1", "age", "int")>>, DefaultRules) :
          n \in OtherNames}

\* Tables whose public fields were assigned after construction (validate()
\* runs in the constructor only).
AssignedTables ==
  {MkTable("T1", "seals", <<>>, DefaultRules),
   MkTable("T1", "seals",
           <<Column("C1", "age", "int"), Column("C2", "age", "int")>>, DefaultRules)}

CallerTables == ConstructedTables \cup AssignedTables

Procs == {1}

VARIABLES phys, catalog, proc, serialOk, calls, raw, oldT, newT, fwd, bwd, res, stage,
          stored, rows, admins, request

vars == <<phys, catalog, proc, serialOk, calls, raw, oldT, newT, fwd, bwd, res, stage,
          stored, rows, admins, request>>

storeVars == <<phys, catalog, proc, serialOk, calls>>

pureVars == <<raw, oldT, newT, fwd, bwd, res, stage, stored, rows, admins, request>>

rowVars == <<stored, rows>>

\* No admin-register request was made yet.
NoRequest ==
  [username |-> Falsy, password |-> Falsy, session |-> Falsy, result |-> "none",
   before |-> <<>>]

AdminIdle == admins = <<>> /\ request = NoRequest

ProcIdle ==
  [pc |-> "idle", kind |-> "none", dir |-> "up", this |-> NullTable,
   new |-> NullTable, todo |-> <<>>, done |-> <<>>, db |-> "none",
   persisted |-> FALSE, result |-> "none", pre |-> Store({}, {})]

PureIdle ==
  /\ raw = NullTable
  /\ oldT = NullTable
  /\ newT = NullTable
  /\ fwd = <<>>
  /\ bwd = <<>>
  /\ res = "none"
  /\ stage = "none"
  /\ stored = <<>>
  /\ rows = <<>>
  /\ AdminIdle

Init ==
  /\ phys = {}
  /\ catalog = {}
  /\ proc = [p \in Procs |-> ProcIdle]
  /\ serialOk = TRUE
  /\ calls = 0
  /\ PureIdle

\* A call of kind on this (and newTable), entered at program point pc.
Called(kind, this, newTable, pc) ==
  [ProcIdle EXCEPT !.pc = pc, !.kind = kind, !.this = this, !.new = newTable,
                   !.pre = Store(phys, catalog)]

\* The call throws: the rest of the async function is skipped.
Thrown(pr, error) == [pr EXCEPT !.pc = "done", !.result = error]

\* Mutant: create() goes on whatever findTableByName returns.
NameTakenIgnored(cat, name) == FALSE

\* create(): existingTable.length, the name check.
NameTaken(cat, name) == findTableByName(cat, name) # {}

\* Table.getNewConnection()
getNewConnection(pr) == [pr EXCEPT !.db = "open"]

\* new Table(def).create(), up to the first await.
create(p) ==
  /\ proc[p].pc = "idle"
  /\ calls < MaxCalls
  /\ \E t \in CallerTables :
       proc' = [proc EXCEPT ![p] = Called("create", t, NullTable, "find")]
  /\ calls' = calls + 1
  /\ UNCHANGED <<phys, catalog, serialOk>>

\* create(): after dao.findTableByName resolved.
createFind(p) ==
  /\ proc[p].pc = "find"
  /\ proc' = [proc EXCEPT ![p] =
       IF NameTaken(catalog, proc[p].this.name)
       THEN Thrown(proc[p], "BadRequestError")
       ELSE [getNewConnection(proc[p]) EXCEPT !.pc = "make"]]
  /\ UNCHANGED <<phys, catalog, serialOk, calls>>

\* The catalog rows a caller can load as a Table (new Table(row) validates).
Loadable(id) == {row \in catalog : row.id = id /\ validate(TableOfRow(row))}

\* drop() on the Table loaded for a table id, up to the first await.
drop(p) ==
  /\ proc[p].pc = "idle"
  /\ calls < MaxCalls
  /\ \E id \in TableIds : \E row \in Loadable(id) :
       proc' = [proc EXCEPT ![p] =
         getNewConnection(Called("drop", TableOfRow(row), NullTable, "make"))]
  /\ calls' = calls + 1
  /\ UNCHANGED <<phys, catalog, serialOk>>

\* updateTo(newTable) on the Table loaded for a table id, up to the first
\* store await.
updateTo(p) ==
  /\ proc[p].pc = "idle"
  /\ calls < MaxCalls
  /\ \E id \in TableIds, newTable \in CallerTables : \E row \in Loadable(id) :
       LET this == TableOfRow(row)
       IN proc' = [proc EXCEPT ![p] =
            IF validateUpdateTo(this, newTable)
            THEN getNewConnection(Called("update", this, newTable, "make"))
            ELSE Thrown(Called("update", this, newTable, "done"), "BadRequestError")]
  /\ calls' = calls + 1
  /\ UNCHANGED <<phys, catalog, serialOk>>

\* The up procedure written into the migration file of the call.
UpOf(pr) ==
  CASE pr.kind = "create" -> CreateUp(pr.this)
    [] pr.kind = "drop" -> DropUp(pr.this)
    [] pr.kind = "update" -> UpdateUp(pr.this, pr.new)
    [] OTHER -> <<>>

\* The down procedure written into the migration file of the call.
DownOf(pr) ==
  CASE pr.kind = "create" -> CreateDown(pr.this)
    [] pr.kind = "drop" -> DropDown(pr.this)
    [] pr.kind = "update" -> UpdateDown(pr.this, pr.new)
    [] OTHER -> <<>>

\* Mutant: db.migrate.up() is entered whether or not the file was written.
migrateMakeUnchecked(p) ==
  /\ proc[p].pc = "make"
  /\ \E written \in BOOLEAN :
       proc' = [proc EXCEPT ![p] =
         [proc[p] EXCEPT !.persisted = written, !.todo = UpOf(proc[p]), !.pc = "run"]]
  /\ UNCHANGED <<phys, catalog, serialOk, calls>>

\* await db.migrate.make(...); fs.writeFileSync(filePath, migrateTemplate);
\* db.migrate.up() is entered.  Either of the first two may throw.
migrateMake(p) ==
  /\ proc[p].pc = "make"
  /\ \E written \in BOOLEAN :
       proc' = [proc EXCEPT ![p] =
         IF written
         THEN [proc[p] EXCEPT !.persisted = TRUE, !.todo = UpOf(proc[p]), !.pc = "run"]
         ELSE Thrown(proc[p], "MigrationError")]
  /\ UNCHANGED <<phys, catalog, serialOk, calls>>

\* Mutant: a store error undoes what the procedure did before it propagates.
migrateStepRollback(p) ==
  /\ proc[p].pc = "run"
  /\ LET pr == proc[p]
         o == Head(pr.todo)
         st == Store(phys, catalog)
         after == StoreApply(st, o)
     IN IF StoreAccepts(st, o)
        THEN /\ phys' = after.phys
             /\ catalog' = after.catalog
             /\ proc' = [proc EXCEPT ![p] =
                  [pr EXCEPT !.todo = Tail(pr.todo), !.done = Append(pr.done, o),
                             !.pc = IF Len(pr.todo) > 1 THEN "run"
                                    ELSE IF pr.dir = "up" THEN "destroy" ELSE "done",
                             !.result = IF Len(pr.todo) > 1 \/ pr.dir = "up"
                                        THEN pr.result ELSE "ok"]]
             /\ UNCHANGED <<serialOk, calls>>
        ELSE /\ proc' = [proc EXCEPT ![p] = Thrown(pr, "StoreError")]
             /\ phys' = pr.pre.phys
             /\ catalog' = pr.pre.catalog
             /\ serialOk' = FALSE
             /\ UNCHANGED calls

\* One awaited dao call of the running procedure.  A store error propagates
\* out of migrate.up() and out of the calling method.
migrateStep(p) ==
  /\ proc[p].pc = "run"
  /\ LET pr == proc[p]
         o == Head(pr.todo)
         st == Store(phys, catalog)
         after == StoreApply(st, o)
     IN IF StoreAccepts(st, o)
        THEN /\ phys' = after.phys
             /\ catalog' = after.catalog
             /\ proc' = [proc EXCEPT ![p] =
                  [pr EXCEPT !.todo = Tail(pr.todo), !.done = Append(pr.done, o),
                             !.pc = IF Len(pr.todo) > 1 THEN "run"
                                    ELSE IF pr.dir = "up" THEN "destroy" ELSE "done",
                             !.result = IF Len(pr.todo) > 1 \/ pr.dir = "up"
                                        THEN pr.result ELSE "ok"]]
             /\ UNCHANGED <<serialOk, calls>>
        ELSE /\ proc' = [proc EXCEPT ![p] = Thrown(pr, "StoreError")]
             /\ serialOk' = FALSE
             /\ UNCHANGED <<phys, catalog, calls>>

\* await db.destroy(): the method returns.
destroy(p) ==
  /\ proc[p].pc = "destroy"
  /\ proc' = [proc EXCEPT ![p] = [proc[p] EXCEPT !.db = "destroyed", !.pc = "done",
                                                !.result = "ok"]]
  /\ UNCHANGED <<phys, catalog, serialOk, calls>>

\* The down procedure of the unit just applied is run (a revert).
revert(p) ==
  /\ proc[p].pc = "done"
  /\ proc[p].result = "ok"
  /\ proc[p].dir = "up"
  /\ proc' = [proc EXCEPT ![p] =
       [proc[p] EXCEPT !.dir = "down", !.todo = DownOf(proc[p]), !.done = <<>>,
                       !.pc = "run", !.result = "none", !.db = "none"]]
  /\ serialOk' = FALSE
  /\ UNCHANGED <<phys, catalog, calls>>

\* The caller has received the outcome of the call and lets go of it.
settle(p) ==
  /\ proc[p].pc = "done"
  /\ proc' = [proc EXCEPT ![p] = ProcIdle]
  /\ UNCHANGED <<phys, catalog, serialOk, calls>>

Next ==
  \E p \in Procs :
    \/ create(p) /\ UNCHANGED pureVars
    \/ createFind(p) /\ UNCHANGED pureVars
    \/ drop(p) /\ UNCHANGED pureVars
    \/ updateTo(p) /\ UNCHANGED pureVars
    \/ migrateMake(p) /\ UNCHANGED pureVars
    \/ migrateStep(p) /\ UNCHANGED pureVars
    \/ destroy(p) /\ UNCHANGED pureVars
    \/ revert(p) /\ UNCHANGED pureVars
    \/ settle(p) /\ UNCHANGED pureVars

Spec == Init /\ [][Next]_vars

(***************************************************************************)
(* The constructor and the update templates as functions of their inputs.  *)
(***************************************************************************)
StoreIdle ==
  /\ phys = {}
  /\ catalog = {}
  /\ proc = [p \in Procs |-> ProcIdle]
  /\ serialOk = TRUE
  /\ calls = 0

\* Column arguments: two well-formed columns, and the first with one field
\* replaced by a value a check of validate() is about.
RawColumns ==
  {Column("C1", "age", "int"), Column("C2", "years", "json")}
  \cup {Column(Falsy, "age", "int")}
  \cup {Column("C1", n, "int") : n \in {Falsy, "id", "created_at", "updated_at"}}
  \cup {Column("C1", "age", ty) : ty \in {Falsy, "blob", "float"}}

RuleInputs == {"public", "admin", "owner"}

\* Constructor arguments: every column list with the default rules, and
\* every combination of rule values on two fixed column lists.
RawTables ==
  {MkTable(i, n, cols, DefaultRules) :
     i \in {Falsy, "T1"}, n \in {Falsy, "seals"}, cols \in SeqsUpTo(RawColumns, MaxCols)}
  \cup {MkTable("T1", "seals", cols, rules) :
          cols \in {<<>>, <<Column("C1", "age", "int")>>},
          rules \in [1..5 -> RuleInputs \cup {Falsy}]
                    \cup {[DefaultRules EXCEPT ![k] = v] : k \in 1..5, v \in API_RULE_VALUES}}

InitValidate ==
  /\ StoreIdle
  /\ raw \in RawTables
  /\ oldT = NullTable
  /\ newT = NullTable
  /\ fwd = <<>>
  /\ bwd = <<>>
  /\ res = "none"
  /\ stage = "raw"
  /\ stored = <<>>
  /\ rows = <<>>
  /\ AdminIdle

\* new Table(raw): the fields are assigned, then this.validate() runs.
construct ==
  /\ stage = "raw"
  /\ res' = IF validate(raw) THEN "ok" ELSE "BadRequestError"
  /\ stage' = "constructed"
  /\ UNCHANGED <<raw, oldT, newT, fwd, bwd, stored, rows, admins, request>>

NextValidate == construct /\ UNCHANGED storeVars

SpecValidate == InitValidate /\ [][NextValidate]_vars

DiffColumns ==
  {Column(i, n, "int") : i \in ColIds, n \in {"age", "years", "weight"}}
  \cup {Column("C2", "weight", "float")}

DiffTables(names) ==
  Accepted({MkTable("T1", n, cols, DefaultRules) :
              n \in names, cols \in SeqsUpTo(DiffColumns, MaxCols)})

InitDiff ==
  /\ StoreIdle
  /\ raw = NullTable
  /\ oldT \in DiffTables({"seals"})
  /\ newT \in DiffTables(TableNames)
  /\ fwd = <<>>
  /\ bwd = <<>>
  /\ res = "none"
  /\ stage = "tables"
  /\ stored = <<>>
  /\ rows = <<>>
  /\ AdminIdle

\* The up procedure of oldT.updateTo(newT) is rendered.
renderUp ==
  /\ stage = "tables"
  /\ fwd' = UpdateUp(oldT, newT)
  /\ stage' = "up"
  /\ UNCHANGED <<raw, oldT, newT, bwd, res, stored, rows, admins, request>>

\* The down procedure of oldT.updateTo(newT) is rendered.
renderDown ==
  /\ stage = "up"
  /\ bwd' = UpdateDown(oldT, newT)
  /\ stage' = "down"
  /\ UNCHANGED <<raw, oldT, newT, fwd, res, stored, rows, admins, request>>

NextDiff ==
  \/ renderUp /\ UNCHANGED storeVars
  \/ renderDown /\ UNCHANGED storeVars

SpecDiff == InitDiff /\ [][NextDiff]_vars

(***************************************************************************)
(* Properties of the diff.                                                 *)
(***************************************************************************)
IsStructural(o) == o.op \in {"dropColumn", "addColumn", "renameColumn", "renameTable"}

Structural(ops) == SelectSeq(ops, IsStructural)

\* An operation without the table it addresses.
Bare(kind, from, to, col) == [op |-> kind, from |-> from, to |-> to, col |-> col]

BareOf(o) == Bare(o.op, o.from, o.to, o.col)

ColumnNamed(t, name) == CHOOSE c \in Range(t.columns) : c.name = name

\* The inverse of a forward operation of the diff from oldTable.
InverseOf(o, oldTable) ==
  CASE o.op = "addColumn" -> Bare("dropColumn", o.col.name, Falsy, NullColumn)
    [] o.op = "dropColumn" ->
         Bare("addColumn", Falsy, o.from, ColumnNamed(oldTable, o.from))
    [] OTHER -> Bare(o.op, o.to, o.from, NullColumn)

Count(ops, x) == Cardinality({i \in 1..Len(ops) : ops[i] = x})

SameMultiset(a, b) ==
  /\ Len(a) = Len(b)
  /\ \A i \in 1..Len(a) : Count(a, a[i]) = Count(b, a[i])

\* The revisions differ only in column set, column names and table name.
DifferOnlyInColumnsAndNames(old, new) ==
  /\ old.id = new.id
  /\ RulesOf(old) = RulesOf(new)
  /\ \A i \in 1..Len(old.columns), j \in 1..Len(new.columns) :
       old.columns[i].id = new.columns[j].id
         => old.columns[i].type = new.columns[j].type

DistinctColumnIds(t) ==
  \A i, j \in 1..Len(t.columns) : i # j => t.columns[i].id # t.columns[j].id

BackwardIsInverse ==
  LET f == Structural(fwd)
      b == Structural(bwd)
  IN SameMultiset([i \in 1..Len(b) |-> BareOf(b[i])],
                  [i \in 1..Len(f) |-> InverseOf(f[i], oldT)])

\* C1: for every pair of valid same-id revisions differing only in column
\* set, column names and table name, the operations of the backward
\* procedure are, as a multiset, the inverses of the forward operations.
DiffSymmetry ==
  (stage = "down" /\ DifferOnlyInColumnsAndNames(oldT, newT)) => BackwardIsInverse

\* The symmetry restricted to revisions whose column ids are pairwise distinct.
DiffSymmetryDistinctIds ==
  (stage = "down" /\ DifferOnlyInColumnsAndNames(oldT, newT)
     /\ DistinctColumnIds(oldT) /\ DistinctColumnIds(newT)) => BackwardIsInverse

Seals1 == MkTable("T1", "seals", <<Column("C1", "age", "int")>>, DefaultRules)

Seals2 ==
  MkTable("T1", "seals",
          <<Column("C1", "years", "int"), Column("C2", "weight", "float")>>,
          DefaultRules)

SealsRendered == stage = "down" /\ oldT = Seals1 /\ newT = Seals2

SealsForward ==
  Structural(fwd) = <<renameColumn("seals", "age", "years"),
                      addColumn("seals", Column("C2", "weight", "float"))>>

\* C3 as claimed: for the seals scenario the forward sequence is
\* [rename-column(age->years), add-column(weight: float)] and the backward
\* sequence is [rename-column(years->age), drop-column(weight)], in that order.
SealsScenarioAsClaimed ==
  SealsRendered =>
    /\ SealsForward
    /\ Structural(bwd) = <<renameColumn("seals", "years", "age"),
                           dropColumn("seals", "weight")>>

\* C3 amended: the forward sequence is as claimed, with no table rename; the
\* backward sequence is [drop-column(weight), rename-column(years->age)].
SealsScenario ==
  SealsRendered =>
    /\ SealsForward
    /\ Structural(bwd) = <<dropColumn("seals", "weight"),
                           renameColumn("seals", "years", "age")>>

SealsScenarioWitness == SealsRendered /\ Len(fwd) = 3 /\ Len(bwd) = 3

(***************************************************************************)
(* Properties of validate().                                               *)
(***************************************************************************)
\* The Table invariants, stated on the sets of values of a table.
InvariantsHold(t) ==
  LET cols == Range(t.columns)
  IN /\ t.id # "" /\ t.name # ""
     /\ cols # {}
     /\ \A c \in cols : c.id # "" /\ c.name # "" /\ c.type # ""
     /\ {c.type : c \in cols} \subseteq COLUMN_MAP
     /\ {c.name : c \in cols} \cap {"id", "created_at", "updated_at"} = {}
     /\ \A i, j \in DOMAIN t.columns : i # j => t.columns[i].name # t.columns[j].name
     /\ \A rule \in {t.getAllRule, t.getOneRule, t.createRule, t.updateRule,
                     t.deleteRule} : rule \in {"public", "user", "creator", "admin"}

SameNameTwice(t) ==
  \E i, j \in DOMAIN t.columns : i # j /\ t.columns[i].name = t.columns[j].name

\* C7: validate() succeeds iff every Table invariant holds; a Table with two
\* columns of the same name is rejected by the constructor.
ValidateIffInvariants ==
  stage = "constructed" =>
    /\ res = "ok" <=> InvariantsHold(raw)
    /\ SameNameTwice(raw) => res = "BadRequestError"

ValidateWitness ==
  /\ stage = "constructed"
  /\ res = "BadRequestError"
  /\ raw = MkTable("T1", "seals",
                   <<Column("C1", "age", "int"), Column("C1", "age", "int")>>,
                   DefaultRules)

(***************************************************************************)
(* Properties of the apply paths.                                          *)
(***************************************************************************)
Now == Store(phys, catalog)

Returned(pr) == pr.pc = "done"

\* The physical table and the catalog row of store st are those of table t.
MatchesStore(st, t) ==
  /\ TableMetaRow(t) \in st.catalog
  /\ PhysTable(t.name, {PhysColumn(c) : c \in Range(t.columns)}) \in st.phys

Reverted(pr) ==
  /\ pr.kind = "update"
  /\ pr.dir = "down"
  /\ Returned(pr)
  /\ pr.result = "ok"
  /\ validate(pr.this)
  /\ validate(pr.new)
  /\ MatchesStore(pr.pre, pr.this)

\* C2: an update migration applied forward to completion and then backward
\* to completion, from a store that matched oldTable, leaves the physical
\* schema and the catalog as they were before the migration.
RoundTripRestores == \A p \in Procs : Reverted(proc[p]) => Now = proc[p].pre

\* The round trip restricted to revisions whose column ids are pairwise distinct.
RoundTripRestoresDistinctIds ==
  \A p \in Procs :
    (Reverted(proc[p]) /\ DistinctColumnIds(proc[p].this)
       /\ DistinctColumnIds(proc[p].new)) => Now = proc[p].pre

\* Position of an operation in the order drops, adds/renames, table rename,
\* catalog write.
Group(o) ==
  CASE o.op = "dropColumn" -> 1
    [] o.op \in {"addColumn", "renameColumn"} -> 2
    [] o.op = "renameTable" -> 3
    [] OTHER -> 4

IndexOfName(cols, name) == CHOOSE i \in 1..Len(cols) : cols[i].name = name

\* done is ordered as the claim says, for the diff from table a to table b.
OrderedAsSynthesized(done, a, b) ==
  \A i, j \in 1..Len(done) :
    i < j =>
      /\ done[i] # done[j]
      /\ Group(done[i]) <= Group(done[j])
      /\ Group(done[j]) >= 3 => Group(done[i]) < Group(done[j])
      /\ (Group(done[i]) = 1 /\ Group(done[j]) = 1) =>
           IndexOfName(a.columns, done[i].from) < IndexOfName(a.columns, done[j].from)
      /\ (Group(done[i]) = 2 /\ Group(done[j]) = 2) =>
           IndexOfName(b.columns, done[i].to) < IndexOfName(b.columns, done[j].to)

\* C4: the store operations of one update migration unit execute in the
\* order drops (oldTable column order), adds/renames (newTable column
\* order), table rename, catalog write, each at most once.
UpdateOrder ==
  \A p \in Procs :
    (proc[p].kind = "update" /\ validate(proc[p].this) /\ validate(proc[p].new)) =>
      IF proc[p].dir = "up"
      THEN OrderedAsSynthesized(proc[p].done, proc[p].this, proc[p].new)
      ELSE OrderedAsSynthesized(proc[p].done, proc[p].new, proc[p].this)

UpdateOrderWitness ==
  \E p \in Procs :
    /\ proc[p].kind = "update"
    /\ proc[p].dir = "up"
    /\ Returned(proc[p])
    /\ proc[p].result = "ok"
    /\ {proc[p].done[i].op : i \in 1..Len(proc[p].done)}
         = {"dropColumn", "renameColumn", "renameTable", "updateTableMetaData"}

OnInvalidTable(pr) ==
  \/ pr.kind \in {"create", "drop", "update"} /\ ~validate(pr.this)
  \/ pr.kind = "update" /\ ~validate(pr.new)

\* C6: a create, update or drop on a Table that violates an invariant at the
\* time of the call fails before a migration unit is persisted and before
\* any physical or catalog change.
InvalidTableRejected ==
  \A p \in Procs :
    OnInvalidTable(proc[p]) =>
      /\ ~proc[p].persisted
      /\ proc[p].done = <<>>
      /\ Now = proc[p].pre
      /\ proc[p].pc = "done" => proc[p].result # "ok"

\* C8: every apply step that acquired a store connection has destroyed it
\* when the call returns, on every exit path.
ConnectionReleased ==
  \A p \in Procs : (Returned(proc[p]) /\ proc[p].dir = "up") => proc[p].db # "open"

AllIdle == \A p \in Procs : proc[p].pc \in {"idle", "done"}

\* C9: after a sequence of successfully completed create, update and drop
\* operations no two catalog rows and no two physical tables share a name.
UniqueTableNames ==
  (serialOk /\ AllIdle) =>
    /\ \A r1, r2 \in catalog : r1.name = r2.name => r1 = r2
    /\ \A t1, t2 \in phys : t1.name = t2.name => t1 = t2

UniqueTableNamesWitness ==
  /\ serialOk
  /\ Cardinality(catalog) = 2
  /\ Cardinality(phys) = 2
  /\ \E p \in Procs :
       /\ proc[p].kind = "update"
       /\ Returned(proc[p])
       /\ proc[p].result = "ok"
       /\ proc[p].this.name # proc[p].new.name

\* The catalog row describes the physical table: same name, same column
\* names and declared types.
Describes(row, pt) ==
  /\ row.name = pt.name
  /\ {PhysColumn(row.columns.json[i]) : i \in 1..Len(row.columns.json)} = pt.columns

\* C10: after every successfully completed operation of a serial sequence
\* there is exactly one catalog row per physical table, with the same name
\* and the same column names and declared types.
CatalogMatchesPhysical ==
  (serialOk /\ AllIdle) =>
    /\ \A pt \in phys : Cardinality({row \in catalog : Describes(row, pt)}) = 1
    /\ \A row \in catalog : \E pt \in phys : Describes(row, pt)
    /\ Cardinality(catalog) = Cardinality(phys)

(***************************************************************************)
(* Properties of the update, create and drop migration units.              *)
(***************************************************************************)
\* C11: an update whose newTable has another table id fails with the
\* transition error before a connection is acquired, a unit is persisted or
\* anything is changed; an update that keeps the id is never rejected by
\* the transition check, whatever else differs.
UpdateIdChangeRejected ==
  \A p \in Procs :
    proc[p].kind = "update" =>
      IF proc[p].this.id # proc[p].new.id
      THEN /\ proc[p].pc = "done"
           /\ proc[p].result = "BadRequestError"
           /\ proc[p].db = "none"
           /\ ~proc[p].persisted
           /\ proc[p].done = <<>>
           /\ Now = proc[p].pre
      ELSE proc[p].result # "BadRequestError"

UpdateIdChangeWitness ==
  \E p \in Procs :
    /\ proc[p].kind = "update"
    /\ proc[p].this.id = "T1"
    /\ proc[p].new.id = "T2"
    /\ proc[p].result = "BadRequestError"
    /\ catalog # {}

\* The call applied its up (dir = "up") or its down procedure to the end.
Completed(pr, kind, dir) ==
  pr.kind = kind /\ pr.dir = dir /\ Returned(pr) /\ pr.result = "ok"

RowsOfId(id) == {row \in catalog : row.id = id}

\* C14: a successfully applied update leaves, as the catalog row of the
\* table id, the serialized newTable, written by the last operation of the
\* unit also when no structural operation ran; the down procedure run to
\* its end leaves the serialized oldTable.
CatalogReplaced ==
  \A p \in Procs :
    LET pr == proc[p]
    IN /\ Completed(pr, "update", "up") =>
            /\ RowsOfId(pr.this.id) = {TableMetaRow(pr.new)}
            /\ pr.done[Len(pr.done)] = updateTableMetaData(TableMetaRow(pr.new))
       /\ Completed(pr, "update", "down") =>
            /\ RowsOfId(pr.this.id) = {TableMetaRow(pr.this)}
            /\ pr.done[Len(pr.done)] = updateTableMetaData(TableMetaRow(pr.this))

CatalogReplacedWitness ==
  \E p \in Procs :
    /\ Completed(proc[p], "update", "up")
    /\ Structural(proc[p].done) = <<>>
    /\ RulesOf(proc[p].this) # RulesOf(proc[p].new)
    /\ TableMetaRow(proc[p].new) \in catalog

\* C15: a unit is applied only after it was persisted: no operation of a
\* procedure runs before the migration file is written, and a call whose
\* persistence failed has applied nothing.
PersistBeforeApply ==
  \A p \in Procs :
    /\ (proc[p].pc \in {"run", "destroy"} \/ proc[p].done # <<>>) => proc[p].persisted
    /\ proc[p].result = "MigrationError" =>
         /\ proc[p].pc = "done"
         /\ ~proc[p].persisted
         /\ proc[p].done = <<>>
         /\ Now = proc[p].pre

PersistBeforeApplyWitness ==
  \E p \in Procs :
    /\ proc[p].kind = "update"
    /\ proc[p].result = "MigrationError"
    /\ catalog # {}

\* The store after the operations ops, each applied in turn.
RECURSIVE ApplyAll(_, _)
ApplyAll(st, ops) ==
  IF ops = <<>> THEN st ELSE ApplyAll(StoreApply(st, Head(ops)), Tail(ops))

\* C16: when a store operation fails at position k of the up procedure of
\* an update, the operations before k stay applied, no operation from k on
\* is executed, the catalog is as before the call, and no operation of the
\* down procedure is run.
PartialFailure ==
  \A p \in Procs :
    LET pr == proc[p]
        up == UpOf(pr)
        k == Len(pr.done) + 1
    IN (pr.kind = "update" /\ pr.result = "StoreError" /\ pr.dir = "up") =>
         /\ pr.pc = "done"
         /\ k <= Len(up)
         /\ pr.done = SubSeq(up, 1, k - 1)
         /\ pr.todo = SubSeq(up, k, Len(up))
         /\ ~StoreAccepts(ApplyAll(pr.pre, pr.done), up[k])
         /\ Now = ApplyAll(pr.pre, pr.done)
         /\ catalog = pr.pre.catalog
         /\ TableMetaRow(pr.this) \in catalog

PartialFailureWitness ==
  \E p \in Procs :
    /\ proc[p].kind = "update"
    /\ proc[p].dir = "up"
    /\ proc[p].result = "StoreError"
    /\ Len(proc[p].done) >= 1
    /\ phys # proc[p].pre.phys

\* C18: a create unit applied up and then down leaves neither the physical
\* table nor the catalog row; a drop unit applied up and then down leaves
\* the physical table and the catalog row of the definition captured when
\* the unit was synthesized.
CreateDropRoundTrip ==
  \A p \in Procs :
    LET pr == proc[p]
    IN /\ Completed(pr, "create", "down") =>
            /\ PhysNamed(phys, pr.this.name) = {}
            /\ RowsOfId(pr.this.id) = {}
       /\ Completed(pr, "drop", "down") => MatchesStore(Now, pr.this)

CreateDropRoundTripWitness ==
  \E p \in Procs :
    /\ Completed(proc[p], "drop", "down")
    /\ MatchesStore(proc[p].pre, proc[p].this)
    /\ Cardinality(catalog) = 2

(***************************************************************************)
(* Properties of the operations emitted per column.                        *)
(***************************************************************************)
Rendered == stage \in {"up", "down"}

ColumnPairs(a, b) == (1..Len(a.columns)) \X (1..Len(b.columns))

\* The forward operations of kinds that name a column and satisfy test.
OpsWhere(ops, kinds, test(_)) ==
  {k \in 1..Len(ops) : ops[k].op \in kinds /\ test(ops[k])}

\* Column o of oldTable and column n of newTable, of one id and of
\* different names, get one rename-column(o.name -> n.name) and no add-column
\* of n or drop-column of o.
RenamedOnce(ops, table, o, n) ==
  LET isRename(x) == x = renameColumn(table, o.name, n.name)
      isAdd(x) == x.col = n
      isDrop(x) == x.from = o.name
  IN /\ Cardinality(OpsWhere(ops, {"renameColumn"}, isRename)) = 1
     /\ OpsWhere(ops, {"addColumn"}, isAdd) = {}
     /\ OpsWhere(ops, {"dropColumn"}, isDrop) = {}

RenamedPairsOnce ==
  \A ij \in ColumnPairs(oldT, newT) :
    LET o == oldT.columns[ij[1]]
        n == newT.columns[ij[2]]
    IN (o.id = n.id /\ o.name # n.name) => RenamedOnce(fwd, oldT.name, o, n)

\* C12: in an update between same-id revisions, a column that keeps its id
\* and gets another name has exactly one rename-column(oldName -> newName)
\* in the forward sequence and no add-column or drop-column.
ColumnRenamedOnce == Rendered => RenamedPairsOnce

\* The same for revisions whose column ids are pairwise distinct.
ColumnRenamedOnceDistinctIds ==
  (Rendered /\ DistinctColumnIds(oldT) /\ DistinctColumnIds(newT)) => RenamedPairsOnce

IdsOf(t) == {t.columns[i].id : i \in 1..Len(t.columns)}

NamesOfId(t, id) == {c.name : c \in {d \in Range(t.columns) : d.id = id}}

AddsAndDropsPerId ==
  /\ \A id \in IdsOf(newT) \ IdsOf(oldT) :
       LET adds(x) == x.col.id = id
           renames(x) == x.to \in NamesOfId(newT, id)
       IN /\ Cardinality(OpsWhere(fwd, {"addColumn"}, adds)) = 1
          /\ OpsWhere(fwd, {"renameColumn"}, renames) = {}
  /\ \A id \in IdsOf(oldT) \ IdsOf(newT) :
       LET drops(x) == x.from \in NamesOfId(oldT, id)
       IN /\ Cardinality(OpsWhere(fwd, {"dropColumn"}, drops)) = 1
          /\ OpsWhere(fwd, {"renameColumn"}, drops) = {}

\* C13: in an update between same-id revisions, each column id only in
\* newTable yields exactly one add-column, each column id only in oldTable
\* exactly one drop-column, and neither a rename-column, also when the added
\* and the dropped column have the same name.
AddDropNeverRename == Rendered => AddsAndDropsPerId

\* The same for revisions whose column ids are pairwise distinct.
AddDropNeverRenameDistinctIds ==
  (Rendered /\ DistinctColumnIds(oldT) /\ DistinctColumnIds(newT)) => AddsAndDropsPerId

\* The physical columns of that name in the table of that name.
PhysColumnsNamed(st, table, name) ==
  {c \in UNION {pt.columns : pt \in PhysNamed(st.phys, table)} : c.name = name}

\* Column o of this and column n of newTable, of one id and one name and of
\* different types: no operation ran on the column, the physical column is
\* as before, and the catalog row is that of newTable.
TypeChangeUnseenFor(pr, o, n) ==
  LET touches(x) == o.name \in {x.from, x.to}
  IN /\ OpsWhere(pr.done, {"dropColumn", "addColumn", "renameColumn"}, touches) = {}
     /\ PhysColumnsNamed(Now, pr.new.name, o.name)
          = PhysColumnsNamed(pr.pre, pr.this.name, o.name)
     /\ RowsOfId(pr.this.id) = {TableMetaRow(pr.new)}
     /\ n \in Range(TableOfRow(TableMetaRow(pr.new)).columns)

TypeChangesUnseen(pr) ==
  \A ij \in ColumnPairs(pr.this, pr.new) :
    LET o == pr.this.columns[ij[1]]
        n == pr.new.columns[ij[2]]
    IN (o.id = n.id /\ o.name = n.name /\ o.type # n.type)
         => TypeChangeUnseenFor(pr, o, n)

\* C19: in a successfully applied update, a matched column (same id) that
\* keeps its name and changes its declared type has no structural operation
\* and an unchanged physical column, while the catalog row is replaced with
\* newTable, which records the new type.
TypeChangeUnseen ==
  \A p \in Procs :
    (Completed(proc[p], "update", "up") /\ validate(proc[p].new))
      => TypeChangesUnseen(proc[p])

\* The same for revisions whose column ids are pairwise distinct.
TypeChangeUnseenDistinctIds ==
  \A p \in Procs :
    (Completed(proc[p], "update", "up") /\ validate(proc[p].new)
       /\ DistinctColumnIds(proc[p].this) /\ DistinctColumnIds(proc[p].new))
      => TypeChangesUnseen(proc[p])

(***************************************************************************)
(* Two updateTo calls running at once.  Nothing in updateTo serializes the *)
(* calls: every await (migrate.make, each dao call, destroy) is a point    *)
(* where the other call may run.  The store holds the table seals, created *)
(* by one earlier call.                                                    *)
(***************************************************************************)
ConcurrentProcs == {1, 2}

InitConcurrent ==
  /\ phys = {PhysTable(Seals1.name, {PhysColumn(c) : c \in Range(Seals1.columns)})}
  /\ catalog = {TableMetaRow(Seals1)}
  /\ proc = [p \in ConcurrentProcs |-> ProcIdle]
  /\ serialOk = TRUE
  /\ calls = 1
  /\ PureIdle

NextConcurrent ==
  \E p \in ConcurrentProcs :
    \/ updateTo(p) /\ UNCHANGED pureVars
    \/ migrateMake(p) /\ UNCHANGED pureVars
    \/ migrateStep(p) /\ UNCHANGED pureVars
    \/ destroy(p) /\ UNCHANGED pureVars

SpecConcurrent == InitConcurrent /\ [][NextConcurrent]_vars

\* The catalog row and the physical table agree on the table name and on
\* the column names.
NamesAgree(row, pt) ==
  /\ row.name = pt.name
  /\ {row.columns.json[i].name : i \in 1..Len(row.columns.json)}
       = {c.name : c \in pt.columns}

Inconsistent == \E row \in catalog : ~ \E pt \in phys : NamesAgree(row, pt)

\* seals with the table renamed, and seals with the column renamed.
SealsAsWalrus == MkTable("T1", "walrus", <<Column("C1", "age", "int")>>, DefaultRules)

SealsWithYears == MkTable("T1", "seals", <<Column("C1", "years", "int")>>, DefaultRules)

\* Both calls diffed against the revision seals, one towards the renamed
\* table and one towards the renamed column, and both returned normally.
BothUpdated ==
  \E p, q \in ConcurrentProcs :
    /\ Completed(proc[p], "update", "up")
    /\ Completed(proc[q], "update", "up")
    /\ proc[p].this = Seals1
    /\ proc[q].this = Seals1
    /\ proc[p].new = SealsAsWalrus
    /\ proc[q].new = SealsWithYears

\* C17: two concurrent updates of one table that both diff against the same
\* old revision can interleave so that the catalog row differs from the
\* physical schema in the table name or the column names: for the updates
\* of seals towards a renamed table and towards a renamed column, every
\* interleaving in which both return normally ends that way.
ConcurrentUpdatesDiverge == BothUpdated => Inconsistent

ConcurrentUpdatesWitness ==
  /\ BothUpdated
  /\ Inconsistent
  /\ serialOk
  /\ \A row \in catalog : TableOfRow(row) \in {SealsAsWalrus, SealsWithYears}

(***************************************************************************)
(* parseJsonColumns(table, rows): rows read from the store are rehydrated  *)
(* in place.  A row is the sequence of its (key, value) entries in for-in  *)
(* order.  A value is the text the store holds, a number, or the           *)
(* structured value a text decodes to.                                     *)
(***************************************************************************)
Text(s) == [kind |-> "text", of |-> s]

Number(s) == [kind |-> "number", of |-> s]

Structured(s) == [kind |-> "structured", of |-> s]

Entry(key, value) == [key |-> key, value |-> value]

\* The texts JSON.parse accepts; on every other text it throws.
ValidJson == {"{\"a\":1}", "7"}

\* JSON.parse(value) returns (a non-string argument is converted to a
\* string first, and the string of a number is valid JSON).
Parses(value) == value.kind = "number" \/ (value.kind = "text" /\ value.of \in ValidJson)

\* JSON.parse(value) when it returns.
JSONparse(value) ==
  IF value.kind = "number" \/ value.of = "7" THEN Number(value.of)
  ELSE Structured(value.of)

\* Column.COLUMN_MAP[columnType].isJson (the registry is not under src/).
isJson(columnType) == columnType = "json"

\* table.getColumnByName(key) (not under src/): the column of that name, or
\* none.
RECURSIVE FindByName(_, _)
FindByName(cols, name) ==
  IF cols = <<>> THEN NullColumn
  ELSE IF Head(cols).name = name THEN Head(cols)
  ELSE FindByName(Tail(cols), name)

getColumnByName(table, key) == FindByName(table.columns, key)

\* if (key === 'id' || key === 'created_at' || key === 'updated_at') continue
SkippedKeys == {"id", "created_at", "updated_at"}

Outcome(entry, thrown) == [entry |-> entry, thrown |-> thrown]

\* Mutant: the catch block rethrows.
parseKeyRethrows(table, e) ==
  IF e.key \in SkippedKeys THEN Outcome(e, FALSE)
  ELSE LET columnType == getColumnByName(table, e.key).type
       IN IF columnType \notin COLUMN_MAP THEN Outcome(e, TRUE)
          ELSE IF ~isJson(columnType) THEN Outcome(e, FALSE)
          ELSE IF Parses(e.value)
               THEN Outcome([e EXCEPT !.value = JSONparse(e.value)], FALSE)
               ELSE Outcome(e, TRUE)

\* The body of the loop over the keys of a row.  COLUMN_MAP[columnType] is
\* undefined for a key without column or a type without entry, and reading
\* .isJson of it throws a TypeError outside the try block.
parseKey(table, e) ==
  IF e.key \in SkippedKeys THEN Outcome(e, FALSE)
  ELSE LET columnType == getColumnByName(table, e.key).type
       IN IF columnType \notin COLUMN_MAP THEN Outcome(e, TRUE)
          ELSE IF ~isJson(columnType) THEN Outcome(e, FALSE)
          ELSE IF Parses(e.value)
               THEN Outcome([e EXCEPT !.value = JSONparse(e.value)], FALSE)
               ELSE Outcome(e, FALSE)

\* for (let key in row): the row after the loop, and whether it threw.
RECURSIVE parseKeys(_, _)
parseKeys(table, entries) ==
  IF entries = <<>> THEN [row |-> <<>>, thrown |-> FALSE]
  ELSE LET first == parseKey(table, Head(entries))
           rest == parseKeys(table, Tail(entries))
       IN IF first.thrown THEN [row |-> entries, thrown |-> TRUE]
          ELSE [row |-> <<first.entry>> \o rest.row, thrown |-> rest.thrown]

\* for (let row of rows): the rows after the loop, and whether it threw.
RECURSIVE parseRows(_, _)
parseRows(table, rs) ==
  IF rs = <<>> THEN [rows |-> <<>>, thrown |-> FALSE]
  ELSE LET first == parseKeys(table, Head(rs))
           rest == parseRows(table, Tail(rs))
       IN IF first.thrown
          THEN [rows |-> <<first.row>> \o Tail(rs), thrown |-> TRUE]
          ELSE [rows |-> <<first.row>> \o rest.rows, thrown |-> rest.thrown]

MaxKeys == 2

\* The table passed: two columns of a type stored as text, one that is not.
ParseTable ==
  MkTable("T1", "seals",
          <<Column("C1", "data", "json"), Column("C2", "notes", "json"),
            Column("C3", "weight", "int")>>, DefaultRules)

\* Keys of a row: the three skipped keys, the columns, and a key without
\* column.
RowKeys == SkippedKeys \cup {"data", "notes", "weight", "ghost"}

StoredValues == {Text("{\"a\":1}"), Text("{bad"), Number("7")}

Entries == {Entry(k, v) : k \in RowKeys, v \in StoredValues}

DistinctKeys(row) == \A i, j \in 1..Len(row) : i # j => row[i].key # row[j].key

\* A first row of up to MaxKeys keys.
FirstRows == UNION {IF DistinctKeys(r) THEN {r} ELSE {} : r \in SeqsUpTo(Entries, MaxKeys)}

\* The rows that may follow it.
LaterRows ==
  {<<Entry("data", Text("{\"a\":1}"))>>,
   <<Entry("id", Text("7")), Entry("notes", Text("7"))>>,
   <<Entry("notes", Text("")), Entry("weight", Number("7"))>>}

InitParse ==
  /\ StoreIdle
  /\ raw = ParseTable
  /\ oldT = NullTable
  /\ newT = NullTable
  /\ fwd = <<>>
  /\ bwd = <<>>
  /\ res = "none"
  /\ stage = "rows"
  /\ stored \in {<<r>> : r \in FirstRows} \cup {<<r, l>> : r \in FirstRows, l \in LaterRows}
  /\ rows = stored
  /\ AdminIdle

parseJsonColumns ==
  /\ stage = "rows"
  /\ LET after == parseRows(raw, rows)
     IN /\ rows' = after.rows
        /\ res' = IF after.thrown THEN "TypeError" ELSE "returned"
  /\ stage' = "parsed"
  /\ UNCHANGED <<raw, oldT, newT, fwd, bwd, stored, admins, request>>

NextParse == parseJsonColumns /\ UNCHANGED storeVars

SpecParse == InitParse /\ [][NextParse]_vars

\* The positions (row, key) of the rows passed.
Positions == UNION {{<<r, k>> : k \in 1..Len(stored[r])} : r \in 1..Len(stored)}

NotAfter(a, b) == a[1] < b[1] \/ (a[1] = b[1] /\ a[2] <= b[2])

StoredAt(rk) == stored[rk[1]][rk[2]]

TypeAt(rk) == getColumnByName(raw, StoredAt(rk).key).type

\* The key is not skipped and has no column (or no registered type).
Unknown(rk) == StoredAt(rk).key \notin SkippedKeys /\ TypeAt(rk) \notin COLUMN_MAP

\* The loops get to the key and past its type lookup.
Reached(rk) == \A b \in Positions : NotAfter(b, rk) => ~Unknown(b)

NeedsDecoding(rk) == StoredAt(rk).key \notin SkippedKeys /\ TypeAt(rk) = "json"

SameShape ==
  /\ Len(rows) = Len(stored)
  /\ \A r \in 1..Len(stored) :
       /\ Len(rows[r]) = Len(stored[r])
       /\ \A k \in 1..Len(stored[r]) : rows[r][k].key = stored[r][k].key

\* C20: when rows are rehydrated, a value of a column stored as text that
\* fails to decode is returned as stored, no key is dropped, the failure
\* does not end the read (only a key without column does), every later key
\* and row the loops get to is decoded, and the keys id, created_at and
\* updated_at are never decoded.
DecodeFailureKept ==
  stage = "parsed" =>
    /\ SameShape
    /\ \A rk \in Positions :
         /\ StoredAt(rk).key \in {"id", "created_at", "updated_at"}
              => rows[rk[1]][rk[2]] = StoredAt(rk)
         /\ (NeedsDecoding(rk) /\ ~Parses(StoredAt(rk).value))
              => rows[rk[1]][rk[2]] = StoredAt(rk)
         /\ (NeedsDecoding(rk) /\ Parses(StoredAt(rk).value) /\ Reached(rk))
              => rows[rk[1]][rk[2]].value = JSONparse(StoredAt(rk).value)
    /\ res = "returned" <=> ~ \E rk \in Positions : Unknown(rk)
    /\ res \in {"returned", "TypeError"}

DecodeFailureWitness ==
  /\ stage = "parsed"
  /\ res = "returned"
  /\ stored = <<<<Entry("data", Text("{bad")), Entry("notes", Text("{\"a\":1}"))>>,
                <<Entry("id", Text("7")), Entry("notes", Text("7"))>>>>
  /\ rows = <<<<Entry("data", Text("{bad")), Entry("notes", Structured("{\"a\":1}"))>>,
              <<Entry("id", Text("7")), Entry("notes", Number("7"))>>>>

(***************************************************************************)
(* Properties of the steps of an update procedure.                         *)
(***************************************************************************)
\* The names of the physical columns of the table of that name.
PhysColumnNames(st, table) ==
  {c.name : c \in UNION {pt.columns : pt \in PhysNamed(st.phys, table)}}

\* An update between valid revisions, called on a store that matched this.
SerialUpdate(pr) ==
  /\ pr.kind = "update"
  /\ validate(pr.this)
  /\ validate(pr.new)
  /\ MatchesStore(pr.pre, pr.this)

\* The procedure is about to issue its next operation.
AboutToIssue(pr, kinds) == pr.pc = "run" /\ Head(pr.todo).op \in kinds

TargetFree(pr) == Head(pr.todo).to \notin PhysColumnNames(Now, Head(pr.todo).table)

\* C21: for valid same-id revisions, the forward operations executed step
\* by step from the physical columns of oldTable never issue an add-column
\* or rename-column whose target name is the name of a column physically
\* present at that step.
NoNameCollision ==
  \A p \in Procs :
    (SerialUpdate(proc[p]) /\ proc[p].dir = "up"
       /\ AboutToIssue(proc[p], {"addColumn", "renameColumn"})) => TargetFree(proc[p])

\* The same for revisions whose column ids are pairwise distinct.
NoNameCollisionDistinctIds ==
  \A p \in Procs :
    (SerialUpdate(proc[p]) /\ proc[p].dir = "up"
       /\ DistinctColumnIds(proc[p].this) /\ DistinctColumnIds(proc[p].new)
       /\ AboutToIssue(proc[p], {"addColumn", "renameColumn"})) => TargetFree(proc[p])

\* The revision the running procedure starts from, and the one it leads to.
FromTable(pr) == IF pr.dir = "up" THEN pr.this ELSE pr.new

ToTable(pr) == IF pr.dir = "up" THEN pr.new ELSE pr.this

\* Name n belongs to a column of a whose id is not in b, and to a column of
\* b whose id is not in a.
Replaced(a, b, n) ==
  /\ \E c \in Range(a.columns) : c.name = n /\ c.id \notin IdsOf(b)
  /\ \E d \in Range(b.columns) : d.name = n /\ d.id \notin IdsOf(a)

Dropped(ops, n) == {i \in 1..Len(ops) : ops[i].op = "dropColumn" /\ ops[i].from = n}

Added(ops, n) == {j \in 1..Len(ops) : ops[j].op = "addColumn" /\ ops[j].to = n}

\* C22: when an update removes a column named n and introduces a column of
\* another id with the same name n, drop-column(n) runs before
\* add-column(n) and the add is issued when no physical column is named n,
\* in the forward and in the backward procedure.
DropBeforeAdd ==
  \A p \in Procs :
    LET pr == proc[p]
    IN SerialUpdate(pr) =>
         \A n \in ColNames :
           Replaced(FromTable(pr), ToTable(pr), n) =>
             /\ \A j \in Added(pr.done, n) : \E i \in Dropped(pr.done, n) : i < j
             /\ (AboutToIssue(pr, {"addColumn"}) /\ Head(pr.todo).to = n) =>
                  /\ Dropped(pr.done, n) # {}
                  /\ TargetFree(pr)

DropBeforeAddWitness ==
  \E p \in Procs :
    /\ SerialUpdate(proc[p])
    /\ Completed(proc[p], "update", "down")
    /\ Replaced(proc[p].new, proc[p].this, "age")
    /\ Dropped(proc[p].done, "age") # {}
    /\ Added(proc[p].done, "age") # {}

ColumnOps == {"dropColumn", "addColumn", "renameColumn"}

\* C23: in an update that renames the table, every column operation of the
\* forward procedure addresses the table by the old name, and of the
\* backward procedure by the new name; the table physically exists under
\* that name when the operation is issued.
TableAddressedByCurrentName ==
  \A p \in Procs :
    LET pr == proc[p]
    IN (pr.kind = "update" /\ pr.this.name # pr.new.name
          /\ PhysNamed(pr.pre.phys, pr.this.name) # {}) =>
         /\ \A i \in 1..Len(pr.done) :
              pr.done[i].op \in ColumnOps => pr.done[i].table = FromTable(pr).name
         /\ AboutToIssue(pr, ColumnOps) =>
              /\ Head(pr.todo).table = FromTable(pr).name
              /\ PhysNamed(phys, Head(pr.todo).table) # {}

TableAddressedWitness ==
  \E p \in Procs :
    /\ Completed(proc[p], "update", "down")
    /\ proc[p].this.name # proc[p].new.name
    /\ \E i \in 1..Len(proc[p].done) :
         proc[p].done[i].op \in ColumnOps /\ proc[p].done[i].table = proc[p].new.name

(***************************************************************************)
(* Two create calls running at once, on an empty store.                    *)
(***************************************************************************)
InitConcurrentCreate ==
  /\ phys = {}
  /\ catalog = {}
  /\ proc = [p \in ConcurrentProcs |-> ProcIdle]
  /\ serialOk = TRUE
  /\ calls = 0
  /\ PureIdle

NextConcurrentCreate ==
  \E p \in ConcurrentProcs :
    \/ create(p) /\ UNCHANGED pureVars
    \/ createFind(p) /\ UNCHANGED pureVars
    \/ migrateMake(p) /\ UNCHANGED pureVars
    \/ migrateStep(p) /\ UNCHANGED pureVars
    \/ destroy(p) /\ UNCHANGED pureVars

SpecConcurrentCreate == InitConcurrentCreate /\ [][NextConcurrentCreate]_vars

\* The call got past the name check of create.
PassedCheck(pr) ==
  pr.kind = "create" /\ pr.pc \in {"make", "run", "destroy", "done"} /\ pr.db # "none"

\* The step in which call p gets the answer of findTableByName: it goes on
\* exactly when the catalog holds no row of its name at that moment.
CheckSeesCatalogOnly(p) ==
  (proc[p].pc = "find" /\ proc'[p].pc # "find") =>
    (PassedCheck(proc'[p]) <=> findTableByName(catalog, proc[p].this.name) = {})

\* C24: the name check of create is not atomic with the apply step: a create
\* passes it whenever the catalog holds no row of its name at the moment of
\* the check, whatever a concurrent create of the same name has done so far
\* short of writing its catalog row (so both can pass, persist and apply).
CreateCheckNotAtomic == [][\A p \in ConcurrentProcs : CheckSeesCatalogOnly(p)]_vars

\* Both creates of one name passed the check and persisted their unit; one
\* has applied it, the other has run createTable against the existing table.
CreateRaceWitness ==
  \E p, q \in ConcurrentProcs :
    /\ p # q
    /\ proc[p].this.name = proc[q].this.name
    /\ validate(proc[p].this) /\ validate(proc[q].this)
    /\ PassedCheck(proc[p]) /\ PassedCheck(proc[q])
    /\ proc[p].persisted /\ proc[q].persisted
    /\ Completed(proc[p], "create", "up")
    /\ proc[q].result = "StoreError"

(***************************************************************************)
(* AuthApi.registerAdminHandler: serial POST /admin/register requests on   *)
(* the admins table.  The table is the sequence of its rows in insertion   *)
(* order; createdBy is not stored, it records the role of the session user *)
(* of the request that inserted the row.                                   *)
(***************************************************************************)
Usernames == {"ada", "bob", "cy"}

\* req.body.password: given or missing.
Passwords == {"password", Falsy}

\* req.session.user: none, or a user with a role.
SessionRoles == {Falsy, "user", "admin"}

AdminRow(username, by) == [username |-> username, role |-> "admin", createdBy |-> by]

\* dao.getAll("admins") (dao.js is not under src/).
getAll(table) == table

\* dao.search("admins", {username}) (dao.js is not under src/).
search(table, username) ==
  LET same(row) == row.username = username
  IN SelectSeq(table, same)

\* dao.createOne("admins", row) (dao.js is not under src/).
createOne(table, row) == Append(table, row)

\* Mutant: the session checks are left out.
registerAdminOutcomeOpen(allAdmins, existingAdmin, password, session) ==
  IF Len(existingAdmin) # 0 THEN "AuthenticationError"
  ELSE IF password = Falsy THEN "Error"
  ELSE "created"

\* The throws of the handler in order, or "created"; bcrypt.hash rejects a
\* missing password.
registerAdminOutcome(allAdmins, existingAdmin, password, session) ==
  IF Len(allAdmins) # 0 /\ session = Falsy THEN "UnauthenticatedError"
  ELSE IF Len(allAdmins) # 0 /\ session # "admin" THEN "ForbiddenError"
  ELSE IF Len(existingAdmin) # 0 THEN "AuthenticationError"
  ELSE IF password = Falsy THEN "Error"
  ELSE "created"

registerAdminHandler ==
  \E username \in Usernames, password \in Passwords, session \in SessionRoles :
    LET allAdmins == getAll(admins)
        existingAdmin == search(admins, username)
        outcome == registerAdminOutcome(allAdmins, existingAdmin, password, session)
    IN /\ admins' = IF outcome = "created"
                     THEN createOne(admins, AdminRow(username, session))
                     ELSE admins
       /\ request' = [username |-> username, password |-> password,
                       session |-> session, result |-> outcome, before |-> admins]
       /\ UNCHANGED <<raw, oldT, newT, fwd, bwd, res, stage, stored, rows>>

InitAdmin == StoreIdle /\ PureIdle

NextAdmin == registerAdminHandler /\ UNCHANGED storeVars

SpecAdmin == InitAdmin /\ [][NextAdmin]_vars

NamesOfAdmins(table) == {table[i].username : i \in 1..Len(table)}

\* C25: after any serial sequence of admin-register requests, every admin
\* but the first was created by a request of an admin session; once an admin
\* exists, a request without session user fails as unauthenticated and one
\* of a non-admin session as forbidden, without inserting a row; and no
\* request inserts an admin whose username is in the table already.
AdminsCreatedByAdmins ==
  /\ \A i \in 2..Len(admins) : admins[i].createdBy = "admin"
  /\ \A i, j \in 1..Len(admins) : i # j => admins[i].username # admins[j].username
  /\ (request.result # "none" /\ request.before # <<>>) =>
       /\ request.session = "" =>
            request.result = "UnauthenticatedError" /\ admins = request.before
       /\ request.session \notin {"", "admin"} =>
            request.result = "ForbiddenError" /\ admins = request.before
  /\ (request.result # "none" /\ request.username \in NamesOfAdmins(request.before)) =>
       admins = request.before /\ request.result # "created"
  /\ request.result = "created" <=> Len(admins) = Len(request.before) + 1
  /\ request.result # "created" => admins = request.before

AdminsWitness ==
  /\ Len(admins) = 2
  /\ admins[1].createdBy = ""
  /\ request.result = "ForbiddenError"
  /\ request.username \notin NamesOfAdmins(admins)

====
